---- MODULE Spec2Model ----
(***************************************************************************)
(* FATokenSegmentationTools_1best_bpe_t<Ty>::Process                        *)
(* (blingfireclient.library/inc/FATokenSegmentationTools_1best_bpe_t.h).    *)
(*                                                                         *)
(* One call of Process is modelled step by step: arc enumeration (one step *)
(* per start position), the qsort of the arc buffer, the cover loop (one   *)
(* step per arc) and the copy loop (one step per emitted triple).  The      *)
(* automaton behind m_pDfa / m_pMealy / m_pI2Info is the trie of a finite  *)
(* vocabulary with a minimal-perfect-hash Mealy overlay.                   *)
(***************************************************************************)
EXTENDS Integers, Sequences, FiniteSets, TLC

(* ------------------------------ bounds -------------------------------- *)

\* longest input handed to Process
MaxLen == 4
\* largest output capacity MaxOutSize
MaxOut == 7
\* copy-loop iterations followed before a run is cut off
MaxCopySteps == 6

\* code units of the universally quantified models
Alphabet == {1, 2}
\* lengths of the vocabulary tokens
TokenLengths == 1..3
\* ids of the vocabulary tokens; two tokens may share one
TokenIds == {1, 2}
\* number of tokens in a vocabulary
VocabSizes == 0..2
\* UnkId: below every id, equal to an id, above every id
UnkIds == 0..3

(* ------------------- vocabulary and its automaton --------------------- *)

\* all strings over A with a length in L
Strings(A, L) == UNION {[1..k -> A] : k \in L}

RECURSIVE VocabsUpTo(_, _)
\* all vocabularies (sets of <<token, id>>, tokens distinct) with at most n tokens
VocabsUpTo(Pairs, n) ==
    IF n = 0 THEN {{}}
    ELSE LET smaller == VocabsUpTo(Pairs, n - 1)
         IN  smaller \cup
             UNION {{V \cup {p} : p \in {q \in Pairs : \A r \in V : r[1] # q[1]}} :
                      V \in smaller}

Tokens(V) == {p[1] : p \in V}

IsPrefix(p, w) == Len(p) <= Len(w) /\ SubSeq(w, 1, Len(p)) = p

\* the states of the trie: every prefix of a token, the empty one included
Prefixes(V) == {<<>>} \cup UNION {{SubSeq(w, 1, k) : k \in 1..Len(w)} : w \in Tokens(V)}

\* lexicographic order on strings, a proper prefix first
LexLess(u, w) ==
    \/ Len(u) < Len(w) /\ IsPrefix(u, w)
    \/ \E k \in 1..Len(u) :
          /\ k <= Len(w)
          /\ SubSeq(u, 1, k - 1) = SubSeq(w, 1, k - 1)
          /\ u[k] < w[k]

RECURSIVE StateId(_, _)
\* state numbering of the trie (code units are below 8); the initial state, the
\* empty prefix, is 0
StateId(V, p) ==
    IF p = <<>> THEN 0 ELSE p[Len(p)] + 8 * StateId(V, SubSeq(p, 1, Len(p) - 1))

PrefixOf(V, State) == CHOOSE p \in Prefixes(V) : StateId(V, p) = State

\* m_pDfa->GetInitial ()
GetInitial(V) == StateId(V, <<>>)

\* number of tokens that precede string p: the perfect-hash key of p
KeyOf(V, p) == Cardinality({w \in Tokens(V) : LexLess(w, p)})

\* m_pMealy->GetDestOw (State, Iw, &Ow): destination state or -1, and the output weight
GetDestOw(V, State, Iw) ==
    LET p == PrefixOf(V, State)
        q == Append(p, Iw)
    IN  IF q \in Prefixes(V)
        THEN [Dst |-> StateId(V, q), Ow |-> KeyOf(V, q) - KeyOf(V, p)]
        ELSE [Dst |-> -1, Ow |-> 0]

\* m_pDfa->IsFinal (State)
IsFinal(V, State) == PrefixOf(V, State) \in Tokens(V)

\* m_pI2Info->Get (SumOw, &pValues): the values stored for a key
I2InfoGet(V, Key) ==
    LET w == CHOOSE t \in Tokens(V) : KeyOf(V, t) = Key
        p == CHOOSE q \in V : q[1] = w
    IN  <<p[2]>>

(* --------------------------- arc enumeration -------------------------- *)

\* _TArc (b, e, id)
TArc(b, e, id) == [Start |-> b, End |-> e, Id |-> id]

RECURSIVE InnerLoop(_, _, _, _, _, _, _, _)
\* for (int i = start; i < InSize; ++i): the arcs pushed for one start position
InnerLoop(V, In, N, st, i, State, SumOw, found) ==
    IF i >= N THEN found
    ELSE LET d == GetDestOw(V, State, In[i + 1])
         IN  IF d.Dst = -1 THEN found
             ELSE LET sum == SumOw + d.Ow
                  IN  InnerLoop(V, In, N, st, i + 1, d.Dst, sum,
                        IF IsFinal(V, d.Dst)
                        THEN Append(found, TArc(st, i, I2InfoGet(V, sum)[1]))
                        ELSE found)

\* faulty variant: the test looks one arc too far down the buffer
PrevIsUnknownOffByOne(as, Unk) == 1 < Len(as) /\ Unk = as[Len(as)].Id

\* the test "the previous arc is also unknown"
PrevIsUnknown(as, Unk) == 0 < Len(as) /\ Unk = as[Len(as)].Id

\* faulty variant: every unknown position gets an arc of its own
FallbackNoCoalesce(as, st, Unk) == Append(as, TArc(st, st, Unk))

\* if (TokenUnknown) { ... }: extend the previous arc or push a new unknown arc
Fallback(as, st, Unk) ==
    IF PrevIsUnknown(as, Unk)
    THEN [as EXCEPT ![Len(as)].End = st]
    ELSE Append(as, TArc(st, st, Unk))

\* one iteration of for (int start = 0; start < InSize; ++start)
EnumStart(V, In, N, Unk, as, st) ==
    LET found == InnerLoop(V, In, N, st, st, GetInitial(V), 0, <<>>)
    IN  IF found = <<>> THEN Fallback(as, st, Unk) ELSE as \o found

(* ------------------------------- sorting ------------------------------ *)

\* faulty variant: the comparator orders by id alone
CompareIdOnly(a, b) ==
    IF a.Id < b.Id THEN -1 ELSE IF a.Id = b.Id THEN 0 ELSE 1

\* faulty variant: larger ids first
CompareDescending(a, b) ==
    IF a.Id > b.Id THEN -1
    ELSE IF a.Id = b.Id
         THEN IF a.Start < b.Start THEN -1
              ELSE IF a.Start = b.Start THEN 0 ELSE 1
         ELSE 1

\* the qsort comparator: -1, 0 or 1
Compare(a, b) ==
    IF a.Id < b.Id THEN -1
    ELSE IF a.Id = b.Id
         THEN IF a.Start < b.Start THEN -1
              ELSE IF a.Start = b.Start THEN 0 ELSE 1
         ELSE 1

RECURSIVE OrdersOf(_, _)
\* every order of the arcs at the indices I that the comparator accepts as sorted
OrdersOf(as, I) ==
    IF I = {} THEN {<<>>}
    ELSE UNION {{<<as[k]>> \o rest : rest \in OrdersOf(as, I \ {k})} :
                  k \in {m \in I : \A n \in I : Compare(as[n], as[m]) >= 0}}

\* std::qsort: any arrangement that is sorted under the comparator
QSortResults(as) == OrdersOf(as, 1..Len(as))

RECURSIVE InsertSorted(_, _)
InsertSorted(s, a) ==
    IF s = <<>> THEN <<a>>
    ELSE IF Compare(s[Len(s)], a) <= 0 THEN Append(s, a)
         ELSE Append(InsertSorted(SubSeq(s, 1, Len(s) - 1), a), s[Len(s)])

RECURSIVE StableSort(_)
\* the stable sort by the same comparator (ties keep the enumeration order)
StableSort(as) ==
    IF as = <<>> THEN <<>>
    ELSE InsertSorted(StableSort(SubSeq(as, 1, Len(as) - 1)), as[Len(as)])

(* ------------------------------ cover loop ---------------------------- *)

\* faulty variant: only the start is tested
CanMergeStartOnly(cov, N, a) == cov[a.Start] = 0

\* see start/end are available for the merge
CanMerge(cov, N, a) ==
    cov[a.Start] = 0 /\ (a.End + 1 = N \/ cov[a.End + 1] = 0)

\* faulty variant: the memset starts at Start instead of Start + 1
CoverArcMarksFromStart(t, N, a) ==
    IF CanMerge(t.cov, N, a)
    THEN [tos |-> [t.tos EXCEPT ![a.Start] = a.End],
          ids |-> [t.ids EXCEPT ![a.Start] = a.Id],
          cov |-> [p \in 0..(N - 1) |->
                     IF a.Start <= p /\ p < a.End THEN 1 ELSE t.cov[p]]]
    ELSE t

\* one iteration of the cover loop on the tables t = [tos, ids, cov]
CoverArc(t, N, a) ==
    IF CanMerge(t.cov, N, a)
    THEN [tos |-> [t.tos EXCEPT ![a.Start] = a.End],
          ids |-> [t.ids EXCEPT ![a.Start] = a.Id],
          cov |-> [p \in 0..(N - 1) |->
                     IF a.Start + 1 <= p /\ p <= a.End THEN 1 ELSE t.cov[p]]]
    ELSE t

\* std::vector <int> tos_ids (InSize * 3, 0) with pIds [i] = UnkId
InitTables(N, Unk) ==
    [tos |-> [p \in 0..(N - 1) |-> 0],
     ids |-> [p \in 0..(N - 1) |-> Unk],
     cov |-> [p \in 0..(N - 1) |-> 0]]

RECURSIVE CoverAll(_, _, _)
\* the whole cover loop over the arcs as, from tables t
CoverAll(t, N, as) ==
    IF as = <<>> THEN t
    ELSE CoverAll(CoverArc(t, N, Head(as)), N, Tail(as))

(* ------------------------------ copy loop ----------------------------- *)

\* faulty variant: a triple is written as soon as one cell is free
FitsOneCell(Actual, MaxOutSz) == Actual + 1 <= MaxOutSz

\* if (ActualOutSize + 3 <= MaxOutSize)
Fits(Actual, MaxOutSz) == Actual + 3 <= MaxOutSz

\* the cells of pOut written by one iteration
WriteTriple(out, Actual, MaxOutSz, id, st, end) ==
    IF Fits(Actual, MaxOutSz)
    THEN [k \in (DOMAIN out) \cup {Actual, Actual + 1, Actual + 2} |->
            IF k = Actual THEN id
            ELSE IF k = Actual + 1 THEN st
            ELSE IF k = Actual + 2 THEN end
            ELSE out[k]]
    ELSE out

\* start = end; and +1 will be added by the for loop
NextStart(st, end) == end + 1

(* ------------------------------- state -------------------------------- *)

VARIABLES
    vocab,           \* the vocabulary behind m_pDfa, m_pMealy, m_pI2Info
    pIn,             \* the input, pIn [0..InSize-1] (here 1-based)
    InSize,
    MaxOutSize,
    UnkId,
    pc,              \* position in Process
    arcs,            \* std::vector <_TArc> arcs
    unsorted,        \* the arc buffer as enumeration left it
    start,           \* loop variable of the enumeration and of the copy loop
    i,               \* loop variable of the cover loop
    pTos,
    pIds,
    pIntermediate,
    accepted,        \* the arcs the cover loop accepted so far
    merged,          \* whether the last cover iteration accepted its arc
    pOut,            \* the cells of pOut written so far
    ActualOutSize,
    emitted,         \* the triples of the copy loop, in order
    ret              \* the value returned

vars == <<vocab, pIn, InSize, MaxOutSize, UnkId, pc, arcs, unsorted, start, i,
          pTos, pIds, pIntermediate, accepted, merged, pOut, ActualOutSize, emitted,
          ret>>

NoTable == [p \in {} |-> 0]

\* the state at the call of Process, for one model and one argument list
AtCall(V, In, N, Cap, Unk) ==
    /\ vocab = V
    /\ pIn = In
    /\ InSize = N
    /\ MaxOutSize = Cap
    /\ UnkId = Unk
    /\ pc = "call"
    /\ arcs = <<>>
    /\ unsorted = <<>>
    /\ start = 0
    /\ i = 0
    /\ pTos = NoTable
    /\ pIds = NoTable
    /\ pIntermediate = NoTable
    /\ accepted = {}
    /\ merged = FALSE
    /\ pOut = NoTable
    /\ ActualOutSize = 0
    /\ emitted = <<>>
    /\ ret = -1

\* InSize is the length of pIn, or a negative size with no input
Sizes(In) == IF In = <<>> THEN {0, -1} ELSE {Len(In)}

\* every call with a model of Vs, an input of Ins, a capacity of Caps, an UnkId of Unks
Calls(Vs, Ins, Caps, Unks) ==
    \E V \in Vs, In \in Ins, Cap \in Caps, Unk \in Unks :
        \E N \in Sizes(In) : AtCall(V, In, N, Cap, Unk)

\* the models: every vocabulary of at most n tokens
Models(n) == VocabsUpTo(Strings(Alphabet, TokenLengths) \X TokenIds, n)

MaxOf(S) == CHOOSE x \in S : \A y \in S : y <= x

Inputs == Strings(Alphabet, 0..MaxLen)

\* every model, every input, every UnkId; one output capacity
Init == Calls(Models(MaxOf(VocabSizes)), Inputs, {MaxOut}, UnkIds)

\* every output capacity, over the one-token models
InitOut == Calls(Models(1), Inputs, 0..MaxOut, UnkIds)

(* ------------------------------ actions ------------------------------- *)

\* if (0 >= InSize) return 0;
ReturnEmpty ==
    /\ pc = "call"
    /\ 0 >= InSize
    /\ pc' = "done"
    /\ ret' = 0
    /\ UNCHANGED <<vocab, pIn, InSize, MaxOutSize, UnkId, arcs, unsorted, start, i,
                   pTos, pIds, pIntermediate, accepted, merged, pOut, ActualOutSize, emitted>>

\* arcs.reserve (InSize); the enumeration loop starts
Begin ==
    /\ pc = "call"
    /\ 0 < InSize
    /\ pc' = "enum"
    /\ start' = 0
    /\ UNCHANGED <<vocab, pIn, InSize, MaxOutSize, UnkId, arcs, unsorted, i,
                   pTos, pIds, pIntermediate, accepted, merged, pOut, ActualOutSize,
                   emitted, ret>>

\* one start position of the enumeration
EnumStep ==
    /\ pc = "enum"
    /\ start < InSize
    /\ arcs' = EnumStart(vocab, pIn, InSize, UnkId, arcs, start)
    /\ unsorted' = arcs'
    /\ start' = start + 1
    /\ UNCHANGED <<vocab, pIn, InSize, MaxOutSize, UnkId, pc, i,
                   pTos, pIds, pIntermediate, accepted, merged, pOut, ActualOutSize,
                   emitted, ret>>

\* the enumeration is over: qsort, then the tables are allocated
SortArcs ==
    /\ pc = "enum"
    /\ start >= InSize
    /\ arcs' \in QSortResults(arcs)
    /\ pTos' = InitTables(InSize, UnkId).tos
    /\ pIds' = InitTables(InSize, UnkId).ids
    /\ pIntermediate' = InitTables(InSize, UnkId).cov
    /\ i' = 0
    /\ pc' = "cover"
    /\ UNCHANGED <<vocab, pIn, InSize, MaxOutSize, UnkId, unsorted, start,
                   accepted, merged, pOut, ActualOutSize, emitted, ret>>

\* one arc of the cover loop
CoverStep ==
    /\ pc = "cover"
    /\ i < Len(arcs)
    /\ LET a == arcs[i + 1]
           t == CoverArc([tos |-> pTos, ids |-> pIds, cov |-> pIntermediate], InSize, a)
       IN  /\ pTos' = t.tos
           /\ pIds' = t.ids
           /\ pIntermediate' = t.cov
           /\ merged' = CanMerge(pIntermediate, InSize, a)
           /\ accepted' = IF merged' THEN accepted \cup {a} ELSE accepted
    /\ i' = i + 1
    /\ UNCHANGED <<vocab, pIn, InSize, MaxOutSize, UnkId, pc, arcs, unsorted, start,
                   pOut, ActualOutSize, emitted, ret>>

\* the cover loop is over: int ActualOutSize = 0; the copy loop starts
BeginCopy ==
    /\ pc = "cover"
    /\ i >= Len(arcs)
    /\ pc' = "copy"
    /\ start' = 0
    /\ ActualOutSize' = 0
    /\ UNCHANGED <<vocab, pIn, InSize, MaxOutSize, UnkId, arcs, unsorted, i,
                   pTos, pIds, pIntermediate, accepted, merged, pOut, emitted, ret>>

\* one iteration of the copy loop
CopyStep ==
    /\ pc = "copy"
    /\ start < InSize
    /\ Len(emitted) < MaxCopySteps
    /\ LET end == pTos[start]
           id == pIds[start]
       IN  /\ pOut' = WriteTriple(pOut, ActualOutSize, MaxOutSize, id, start, end)
           /\ emitted' = Append(emitted, <<id, start, end>>)
           /\ start' = NextStart(start, end)
    /\ ActualOutSize' = ActualOutSize + 3
    /\ UNCHANGED <<vocab, pIn, InSize, MaxOutSize, UnkId, pc, arcs, unsorted, i,
                   pTos, pIds, pIntermediate, accepted, merged, ret>>

\* return ActualOutSize;
Return ==
    /\ pc = "copy"
    /\ start >= InSize
    /\ pc' = "done"
    /\ ret' = ActualOutSize
    /\ UNCHANGED <<vocab, pIn, InSize, MaxOutSize, UnkId, arcs, unsorted, start, i,
                   pTos, pIds, pIntermediate, accepted, merged, pOut, ActualOutSize, emitted>>

Next ==
    \/ ReturnEmpty
    \/ Begin
    \/ EnumStep
    \/ SortArcs
    \/ CoverStep
    \/ BeginCopy
    \/ CopyStep
    \/ Return

Spec == Init /\ [][Next]_vars

SpecOut == InitOut /\ [][Next]_vars

(* ------------------------- notions of the claims ---------------------- *)

NoToken(V, Unk) == \A p \in V : p[2] # Unk

\* the code units pIn [s..e]
Slice(In, s, e) == SubSeq(In, s + 1, e + 1)

\* token w of the vocabulary occurs in the input at s
OccursAt(w, In, N, s) ==
    s + Len(w) <= N /\ Slice(In, s, s + Len(w) - 1) = w

\* some token of the vocabulary occurs in the input at s
TokenStartsAt(V, In, N, s) == \E w \in Tokens(V) : OccursAt(w, In, N, s)

\* the arc of the occurrence at s of the vocabulary entry p = <<token, id>>
ArcOf(p, s) == TArc(s, s + Len(p[1]) - 1, p[2])

TripleOf(a) == <<a.Id, a.Start, a.End>>

Emitted == {emitted[k] : k \in 1..Len(emitted)}

\* the spans of the triples em, in order, tile a prefix of the input from 0
Contiguous(em) ==
    \A k \in 1..Len(em) :
        /\ em[k][2] <= em[k][3]
        /\ k = 1 => em[k][2] = 0
        /\ k > 1 => em[k][2] = em[k - 1][3] + 1

\* the triples em partition [0, N-1]
Partition(em, N) ==
    Contiguous(em) /\ em # <<>> /\ em[Len(em)][3] = N - 1

(* -------------------------------- C1 ---------------------------------- *)

\* C1: for an input of length N >= 1 the triples Process emits, in emission
\* order, partition [0, N-1] contiguously: the first starts at 0, each has
\* start <= end, each next one starts at the previous end + 1, and when Process
\* returns the last one ends at N-1.
C1_EmittedPartition ==
    InSize >= 1 =>
        /\ Contiguous(emitted)
        /\ pc = "done" => Partition(emitted, InSize)

(* -------------------------------- C2 ---------------------------------- *)

\* C2: every iteration of the copy loop strictly advances its position, and
\* the loop is left exactly when the position equals N.
C2_WalkAdvances ==
    [][/\ (pc = "copy" /\ pc' = "copy") => start' > start
       /\ (pc = "copy" /\ pc' = "done") => start = InSize]_vars

(* -------------------------------- C10 --------------------------------- *)

RECURSIVE RunDfa(_, _, _, _)
\* the automaton run on w from State: the state reached (or -1) and the path sum
RunDfa(V, w, State, SumOw) ==
    IF w = <<>> THEN [Dst |-> State, Sum |-> SumOw]
    ELSE LET d == GetDestOw(V, State, Head(w))
         IN  IF d.Dst = -1 THEN [Dst |-> -1, Sum |-> 0]
             ELSE RunDfa(V, Tail(w), d.Dst, SumOw + d.Ow)

\* a matched arc: pIn [s..e] is accepted and the id is the first value stored
\* for its path sum
MatchedArc(V, In, a) ==
    LET r == RunDfa(V, Slice(In, a.Start, a.End), GetInitial(V), 0)
    IN  /\ r.Dst # -1
        /\ IsFinal(V, r.Dst)
        /\ a.Id = I2InfoGet(V, r.Sum)[1]

\* a fallback arc: id UnkId over positions where no token starts
FallbackArc(V, In, N, Unk, a) ==
    /\ a.Id = Unk
    /\ \A p \in a.Start..a.End : ~TokenStartsAt(V, In, N, p)

\* C10: during arc enumeration, after each start position, every arc of the
\* buffer is a matched arc or a fallback arc, for every UnkId >= 0, one equal
\* to the id of a vocabulary token included.
C10_ArcsMatchedOrFallback ==
    pc = "enum" =>
        \A k \in 1..Len(arcs) :
            \/ MatchedArc(vocab, pIn, arcs[k])
            \/ FallbackArc(vocab, pIn, InSize, UnkId, arcs[k])

(* -------------------------------- C3 ---------------------------------- *)

RECURSIVE Triples(_, _, _, _, _)
\* the triples the copy loop produces from position st, at most n of them
Triples(tos, ids, N, st, n) ==
    IF st >= N \/ n = 0 THEN <<>>
    ELSE <<<<ids[st], st, tos[st]>>>> \o
         Triples(tos, ids, N, NextStart(st, tos[st]), n - 1)

Min(a, b) == IF a <= b THEN a ELSE b

\* the cells of an output array that holds the triples em [1..n]
Layout(em, n) ==
    [k \in 0..(3 * n - 1) |-> em[(k \div 3) + 1][(k % 3) + 1]]

C5_EmptyVocabulary ==
    vocab = {} /\ InSize >= 1 =>
        /\ pc \in {"cover", "copy", "done"} =>
              unsorted = <<TArc(0, InSize - 1, UnkId)>>
        /\ pc \in {"copy", "done"} => accepted = {TArc(0, InSize - 1, UnkId)}
        /\ pc = "done" => emitted = <<<<UnkId, 0, InSize - 1>>>> /\ ret = 3

\* the call returned for an empty vocabulary and the longest input
C5_Witness == vocab = {} /\ InSize = MaxLen /\ pc = "done" /\ ret = 3

(* -------------------------------- C7 ---------------------------------- *)

\* any_test.cpp passes 100 as the unknown id
ScenUnkId == 100

\* the code units a, b, c, x
ScenAlphabet == {1, 2, 3, 4}

\* {"a":1, "ab":2, "b":3, "abc":4}
ScenVocab == {<<<<1>>, 1>>, <<<<1, 2>>, 2>>, <<<<2>>, 3>>, <<<<1, 2, 3>>, 4>>}

\* the scenario model on every input over a, b, c, x, with room for every triple
InitScen == Calls({ScenVocab}, Strings(ScenAlphabet, 0..MaxLen), {3 * MaxLen}, {ScenUnkId})

SpecScen == InitScen /\ [][Next]_vars

\* the triples expected for an input, and the return value
Expect(In, em) == pIn = In => emitted = em /\ ret = 3 * Len(em) /\ pOut = Layout(em, Len(em))

\* C7: with {"a":1, "ab":2, "b":3, "abc":4} and UnkId = 100, Process emits
\* [(4,0,2)] for "abc", [(2,0,1)] for "ab", [(3,0,0),(1,1,1)] for "ba",
\* [(100,0,0),(2,1,2)] for "xab", [(100,0,1),(2,2,3)] for "xxab", nothing for
\* "", and returns 3 x the number of triples.
C7_Scenarios ==
    pc = "done" /\ vocab = ScenVocab /\ UnkId = ScenUnkId =>
        /\ Expect(<<1, 2, 3>>, <<<<4, 0, 2>>>>)
        /\ Expect(<<1, 2>>, <<<<2, 0, 1>>>>)
        /\ Expect(<<2, 1>>, <<<<3, 0, 0>>, <<1, 1, 1>>>>)
        /\ Expect(<<4, 1, 2>>, <<<<ScenUnkId, 0, 0>>, <<2, 1, 2>>>>)
        /\ Expect(<<4, 4, 1, 2>>, <<<<ScenUnkId, 0, 1>>, <<2, 2, 3>>>>)
        /\ Expect(<<>>, <<>>)

\* the call on "xxab" returned
C7_Witness ==
    pc = "done" /\ vocab = ScenVocab /\ UnkId = ScenUnkId /\ pIn = <<4, 4, 1, 2>> /\ ret = 6

(* -------------------------------- C8 ---------------------------------- *)

\* position p is live: not an interior, and the start of an accepted arc
Live(p) == pIntermediate[p] = 0 /\ \E a \in accepted : a.Start = p

\* C8: after each arc of the cover loop, (i) for every live p the positions
\* p+1 .. pTos[p] are interiors and pTos[p]+1 is N or not an interior, (ii) for
\* live p < q, pTos[p] < q, and (iii) an arc accepted in this iteration leaves
\* its start and the position after its end at 0.
C8_CoverInvariant ==
    pc \in {"cover", "copy", "done"} /\ InSize > 0 =>
        /\ \A p \in 0..(InSize - 1) : Live(p) =>
              /\ p <= pTos[p] /\ pTos[p] < InSize
              /\ \A q \in (p + 1)..pTos[p] : pIntermediate[q] = 1
              /\ pTos[p] + 1 = InSize \/ pIntermediate[pTos[p] + 1] = 0
        /\ \A p, q \in 0..(InSize - 1) : Live(p) /\ Live(q) /\ p < q => pTos[p] < q
        /\ pc = "cover" /\ i > 0 /\ merged =>
              LET a == arcs[i]
              IN  /\ Live(a.Start)
                  /\ pTos[a.Start] = a.End
                  /\ pIds[a.Start] = a.Id
                  /\ a.End + 1 = InSize \/ pIntermediate[a.End + 1] = 0

\* the cover loop holds two live arcs, one of them with interiors, and has
\* rejected the arc it looked at last
C8_Witness ==
    /\ pc = "cover"
    /\ i > 0
    /\ ~merged
    /\ \E p, q \in 0..(InSize - 1) :
          Live(p) /\ Live(q) /\ p < q /\ (pTos[p] > p \/ pTos[q] > q)

(* -------------------------------- C9 ---------------------------------- *)

\* C9: whatever order qsort leaves between arcs that compare equal, the cover
\* loop ends with the tables a stable sort of the enumeration order gives, and
\* so do the triples.
C9_SortDeterminism ==
    (pc \in {"copy", "done"} \/ (pc = "cover" /\ i = Len(arcs))) /\ InSize > 0 =>
        LET t == CoverAll(InitTables(InSize, UnkId), InSize, StableSort(unsorted))
        IN  /\ pTos = t.tos
            /\ pIds = t.ids
            /\ pIntermediate = t.cov
            /\ emitted = Triples(t.tos, t.ids, InSize, 0, Len(emitted))

\* the call returned after a sort that did not keep the enumeration order of
\* two arcs with equal id and start
C9_Witness ==
    /\ pc = "done"
    /\ arcs # StableSort(unsorted)
    /\ \E j, k \in 1..Len(arcs) : j # k /\ Compare(arcs[j], arcs[k]) = 0

(* -------------------------------- C6 ---------------------------------- *)

\* C6 as stated: when no token has id UnkId, no two consecutive emitted
\* triples both have id UnkId.
C6_NoConsecutiveUnk ==
    NoToken(vocab, UnkId) =>
        \A k \in 1..(Len(emitted) - 1) :
            ~(emitted[k][1] = UnkId /\ emitted[k + 1][1] = UnkId)

ArcSet == {arcs[k] : k \in 1..Len(arcs)}

\* C6 as amended: when no token has id UnkId, the arc buffer never holds two
\* arcs of id UnkId with adjacent spans (unknown start positions next to each
\* other are coalesced into one arc), and two consecutive emitted triples are
\* never both arcs of id UnkId of the buffer.
C6_FallbackArcsCoalesced ==
    NoToken(vocab, UnkId) =>
        /\ \A a, b \in ArcSet :
              ~(a.Id = UnkId /\ b.Id = UnkId /\ b.Start = a.End + 1)
        /\ \A k \in 1..(Len(emitted) - 1) :
              ~(/\ emitted[k][1] = UnkId
                /\ emitted[k + 1][1] = UnkId
                /\ \E a, b \in ArcSet :
                      TripleOf(a) = emitted[k] /\ TripleOf(b) = emitted[k + 1])

\* the call returned a partition of the input in which an unknown span is
\* followed by a position emitted with UnkId because its arcs were rejected
C6_Witness ==
    /\ pc = "done"
    /\ NoToken(vocab, UnkId)
    /\ InSize > 0
    /\ Partition(emitted, InSize)
    /\ \E k \in 1..(Len(emitted) - 1) :
          emitted[k][1] = UnkId /\ emitted[k + 1][1] = UnkId

(* -------------------------------- C4 ---------------------------------- *)

\* the occurrences, as <<entry, start>>, of the vocabulary entries in the input
Occurrences ==
    {o \in vocab \X (0..(InSize - 1)) : OccursAt(o[1][1], pIn, InSize, o[2])}

\* two arcs share an input position
Overlap(a, b) == a.Start <= b.End /\ b.Start <= a.End

\* the span of a lies within the span of b
Within(a, b) == b.Start <= a.Start /\ a.End <= b.End

\* C4 as stated, for every vocabulary and every two of its tokens X, Y with
\* id(X) < id(Y) (which covers V and, with the roles swapped, V'): for
\* overlapping occurrences of X and Y, Process emits the triple of the X
\* occurrence and not the triple of the Y occurrence.
C4_LowerIdWins ==
    pc = "done" /\ InSize > 0 =>
        \A x, y \in Occurrences :
            x[1][2] < y[1][2] /\ Overlap(ArcOf(x[1], x[2]), ArcOf(y[1], y[2])) =>
                /\ TripleOf(ArcOf(x[1], x[2])) \in Emitted
                /\ TripleOf(ArcOf(y[1], y[2])) \notin Emitted

\* C4 as amended: for overlapping occurrences of X and Y with id(X) < id(Y),
\* if the cover loop accepted the arc of the X occurrence and the span of the Y
\* occurrence does not contain the span of the X occurrence, the arc of the Y
\* occurrence is not accepted and its triple is not emitted.
C4_AcceptedLowerIdBlocks ==
    pc \in {"cover", "copy", "done"} /\ InSize > 0 =>
        \A x, y \in Occurrences :
            LET ax == ArcOf(x[1], x[2])
                ay == ArcOf(y[1], y[2])
            IN  /\ x[1][2] < y[1][2]
                /\ Overlap(ax, ay)
                /\ ~Within(ax, ay)
                /\ ax \in accepted
                => ay \notin accepted /\ TripleOf(ay) \notin Emitted

\* the call returned; X was accepted and emitted, and an overlapping Y of
\* higher id that does not contain it was left out
C4_Witness ==
    /\ pc = "done"
    /\ InSize > 0
    /\ NoToken(vocab, UnkId)
    /\ \E x, y \in Occurrences :
          LET ax == ArcOf(x[1], x[2])
              ay == ArcOf(y[1], y[2])
          IN  /\ x[1][2] < y[1][2]
              /\ Overlap(ax, ay)
              /\ ~Within(ax, ay)
              /\ ~Within(ay, ax)
              /\ ax \in accepted
              /\ TripleOf(ax) \in Emitted

====
